---- MODULE Spec2Model ----
(***************************************************************************)
(* Model of slack/web/classes/actions.py: the interactive attachment       *)
(* elements (Action, ActionConfirmation, Button, LinkButton and the        *)
(* MessageDropdown family) and their get_json() serialisation.            *)
(*                                                                         *)
(* Python values are records carrying a class field, so that None, str,   *)
(* int, list, dict, enum members and instances can sit in the same slot.  *)
(***************************************************************************)
EXTENDS Integers, Sequences, FiniteSets, TLC

VARIABLES obj, attempt, raised, result, calls

vars == <<obj, attempt, raised, result, calls>>

----------------------------------------------------------------------------
(* Bounds *)

\* number of get_json() calls followed on one instance
MaxCalls == 3
\* how far past the option limit the option sequences of the inputs reach
MaxExtra == 1
\* longest short option sequence of the inputs
MaxShort == 2

----------------------------------------------------------------------------
(* Python values *)

None == [class |-> "NoneType"]
S(v) == [class |-> "str", v |-> v]
I(v) == [class |-> "int", v |-> v]
List(s) == [class |-> "list", items |-> s]
Dict(m) == [class |-> "dict", items |-> m]
EnumMember(cls, v) == [class |-> cls, value |-> S(v)]

\* d.update(e) / d[k] = v on a dict
Update(d, e) ==
    Dict([k \in (DOMAIN d.items) \cup (DOMAIN e.items) |->
            IF k \in DOMAIN e.items THEN e.items[k] ELSE d.items[k]])

SetItem(d, key, v) ==
    Dict([k \in (DOMAIN d.items) \cup {key} |->
            IF k = key THEN v ELSE d.items[k]])

Keys(d) == DOMAIN d.items

\* getattr(self, k, None)
Getattr(self, k) == IF k \in DOMAIN self THEN self[k] ELSE None

\* a keyword argument, or its declared default when it was not passed
Arg(args, k, default) == IF k \in DOMAIN args THEN args[k] ELSE default

----------------------------------------------------------------------------
(* Outcomes of a call *)

NoResult == [kind |-> "none"]
Returned(json) == [kind |-> "json", json |-> json]
Raised(type, message) == [kind |-> "error", type |-> type, message |-> message]
FormationError(message) == Raised("SlackObjectFormationError", message)
FormationErrorListing(message, listed) ==
    [kind |-> "error", type |-> "SlackObjectFormationError",
     message |-> message, listed |-> listed]

----------------------------------------------------------------------------
(* objects.py: enums, JsonObject helpers, Option *)

ButtonStyle_values == {"primary", "danger"}
DynamicTypes_values == {"users", "channels", "conversations"}

ButtonStyle_contains(v) == v.class = "str" /\ v.v \in ButtonStyle_values
DynamicTypes_contains(v) == v.class = "str" /\ v.v \in DynamicTypes_values

ButtonStyle_pretty_print == ButtonStyle_values
DynamicTypes_pretty_print == DynamicTypes_values

EnumClasses == {"ButtonStyle", "DynamicTypes", "OptionType"}

\* JsonObject.get_raw_value: an enum member is unwrapped to its value
get_raw_value(target) ==
    IF target.class \in EnumClasses THEN target.value ELSE target

\* JsonObject.get_non_null_keys
get_non_null_keys(self, keys) ==
    Dict([k \in {a \in keys : Getattr(self, a) # None} |->
            get_raw_value(Getattr(self, k))])

Option(label, value) == [class |-> "Option", label |-> label, value |-> value]

\* Option.get_json(option_type)
Option_get_json(self, option_type) ==
    IF option_type = "DIALOG"
    THEN Dict([label |-> self.label, value |-> self.value])
    ELSE Dict([text |-> self.label, value |-> self.value])

----------------------------------------------------------------------------
(* Instances: a record of the attributes assigned so far *)

Constructed(o) == [kind |-> "object", obj |-> o]

\* self.k = v
SetAttr(self, k, v) ==
    [a \in (DOMAIN self) \cup {k} |-> IF a = k THEN v ELSE self[a]]

\* truth value of a Python value: None, "" and [] are false, an instance of a
\* class without __bool__/__len__ is true
Truthy(v) ==
    CASE v.class = "NoneType" -> FALSE
      [] v.class = "str" -> v.v # ""
      [] v.class = "list" -> Len(v.items) > 0
      [] OTHER -> TRUE

ActionClasses ==
    {"Action", "Button", "LinkButton", "OptionsMessageDropdown",
     "OptionGroupMessageDropdown", "DynamicMessageDropdown",
     "ExternalMessageDropdown"}

DropdownClasses ==
    {"OptionsMessageDropdown", "OptionGroupMessageDropdown",
     "DynamicMessageDropdown", "ExternalMessageDropdown"}

StaticDropdownClasses == {"OptionsMessageDropdown", "OptionGroupMessageDropdown"}

\* the class attribute `attributes`, resolved along the method resolution order
attributes(self) ==
    CASE self.class = "ActionConfirmation" -> {"title", "text", "ok_text", "dismiss_text"}
      [] self.class \in DropdownClasses -> {"name", "text", "value", "type"}
      [] OTHER -> {"name", "text", "type", "url"}

\* the class attribute property_key of the dropdown variants
property_key(self) ==
    IF self.class = "OptionGroupMessageDropdown" THEN "options_group" ELSE "options"

\* reading self.data_source succeeds: a class attribute of three variants, a
\* property returning self._source on DynamicMessageDropdown
data_source_readable(self) ==
    self.class = "DynamicMessageDropdown" => "_source" \in DOMAIN self

\* variant: OptionsMessageDropdown declared with the external data source
data_source_OptionsExternal(self) ==
    CASE self.class = "OptionGroupMessageDropdown" -> S("static")
      [] self.class \in {"OptionsMessageDropdown", "ExternalMessageDropdown"} -> S("external")
      [] self.class = "DynamicMessageDropdown" -> self._source

data_source(self) ==
    CASE self.class \in StaticDropdownClasses -> S("static")
      [] self.class = "ExternalMessageDropdown" -> S("external")
      [] self.class = "DynamicMessageDropdown" -> self._source

MaxOptions == 100
MinOptions == 0

\* variant: the upper limit taken as exclusive
ValidOptionCount_Exclusive(n) == MinOptions < n /\ n < MaxOptions

\* 0 < len(self.options) <= 100
ValidOptionCount(n) == MinOptions < n /\ n <= MaxOptions

----------------------------------------------------------------------------
(* Constructors.  Each takes the keyword arguments of the call and returns *)
(* the instance, or the exception the constructor raised.                  *)

Action_init(self, text, type, name, url) ==
    [a \in (DOMAIN self) \cup {"name", "url", "text", "type"} |->
        CASE a = "name" -> name
          [] a = "url" -> url
          [] a = "text" -> text
          [] a = "type" -> type
          [] OTHER -> self[a]]

\* variant: ok_text and dismiss_text default to None like title
ActionConfirmation_init_NoDefaults(args) ==
    Constructed([class |-> "ActionConfirmation",
                 text |-> args.text,
                 title |-> Arg(args, "title", None),
                 ok_text |-> Arg(args, "ok_text", None),
                 dismiss_text |-> Arg(args, "dismiss_text", None)])

ActionConfirmation_init(args) ==
    Constructed([class |-> "ActionConfirmation",
                 text |-> args.text,
                 title |-> Arg(args, "title", None),
                 ok_text |-> Arg(args, "ok_text", S("Okay")),
                 dismiss_text |-> Arg(args, "dismiss_text", S("Cancel"))])

Button_init(args) ==
    LET s1 == Action_init([class |-> "Button"], args.text, S("button"), args.name, None)
        s2 == SetAttr(s1, "value", args.value)
        s3 == SetAttr(s2, "confirm", Arg(args, "confirm", None))
    IN  Constructed(SetAttr(s3, "style", get_raw_value(Arg(args, "style", None))))

LinkButton_init(args) ==
    Constructed(Action_init([class |-> "LinkButton"], args.text, S("button"), None, args.url))

PlainAction_init(args) ==
    Constructed(Action_init([class |-> "Action"], args.text, args.type,
                            Arg(args, "name", None), Arg(args, "url", None)))

MessageDropdown_init(self, name, text, options, selected_option) ==
    LET s1 == Action_init(self, text, S("select"), name, None)
    IN  IF ~data_source_readable(s1)
        THEN Raised("AttributeError", "object has no attribute '_source'")
        ELSE IF data_source(s1) # S("static")
        THEN IF options.class # "list"
             THEN Raised("TypeError", "object is not iterable")
             ELSE Constructed(SetAttr(SetAttr(s1, "options", List(options.items)),
                                      "selected_option", selected_option))
        ELSE Constructed(SetAttr(SetAttr(s1, "options", None),
                                 "selected_option", selected_option))

OptionsMessageDropdown_init(args) ==
    MessageDropdown_init([class |-> "OptionsMessageDropdown"], args.name, args.text,
                         args.options, Arg(args, "selected_option", None))

OptionGroupMessageDropdown_init(args) ==
    MessageDropdown_init([class |-> "OptionGroupMessageDropdown"], args.name, args.text,
                         args.options, Arg(args, "selected_option", None))

DynamicMessageDropdown_init(args) ==
    LET r == MessageDropdown_init([class |-> "DynamicMessageDropdown"], args.name,
                                  args.text, Arg(args, "options", None),
                                  Arg(args, "selected_option", None))
    IN  IF r.kind = "error" THEN r
        ELSE Constructed(SetAttr(r.obj, "_source", get_raw_value(args.source)))

ExternalMessageDropdown_init(args) ==
    LET r == MessageDropdown_init([class |-> "ExternalMessageDropdown"], args.name,
                                  args.label, Arg(args, "options", None), None)
    IN  IF r.kind = "error" THEN r
        ELSE Constructed(SetAttr(SetAttr(r.obj, "selected_option",
                                         Arg(args, "selected_option", None)),
                                 "min_query_length", Arg(args, "min_query_length", None)))

----------------------------------------------------------------------------
(* get_json *)

Action_get_json(self) ==
    IF self.name = None /\ self.url = None
    THEN FormationError("Action must have a name")
    ELSE Returned(get_non_null_keys(self, attributes(self)))

ActionConfirmation_get_json(self) ==
    Returned(get_non_null_keys(self, attributes(self)))

\* variant: value and style merged without dropping the None ones
Button_get_json_UnfilteredUpdate(self) ==
    IF self.style # None /\ ~ButtonStyle_contains(self.style)
    THEN FormationErrorListing("style attribute must be one of the following values: ",
                               ButtonStyle_pretty_print)
    ELSE LET r == Action_get_json(self)
         IN  IF r.kind = "error" THEN r
             ELSE LET json == Update(r.json, Dict([value |-> self.value, style |-> self.style]))
                  IN  IF Truthy(self.confirm)
                      THEN Returned(SetItem(json, "confirm",
                                            ActionConfirmation_get_json(self.confirm).json))
                      ELSE Returned(json)

\* variant: the base mapping (and its name check) computed before the style check
Button_get_json_NameFirst(self) ==
    LET r == Action_get_json(self)
    IN  IF r.kind = "error" THEN r
        ELSE IF self.style # None /\ ~ButtonStyle_contains(self.style)
        THEN FormationErrorListing("style attribute must be one of the following values: ",
                                   ButtonStyle_pretty_print)
        ELSE LET json == Update(r.json, get_non_null_keys(self, {"value", "style"}))
             IN  IF Truthy(self.confirm)
                 THEN Returned(SetItem(json, "confirm",
                                       ActionConfirmation_get_json(self.confirm).json))
                 ELSE Returned(json)

\* variant: only style merged into the base mapping
Button_get_json_NoValue(self) ==
    IF self.style # None /\ ~ButtonStyle_contains(self.style)
    THEN FormationErrorListing("style attribute must be one of the following values: ",
                               ButtonStyle_pretty_print)
    ELSE LET r == Action_get_json(self)
         IN  IF r.kind = "error" THEN r
             ELSE LET json == Update(r.json, get_non_null_keys(self, {"style"}))
                  IN  IF Truthy(self.confirm)
                      THEN Returned(SetItem(json, "confirm",
                                            ActionConfirmation_get_json(self.confirm).json))
                      ELSE Returned(json)

Button_get_json(self) ==
    IF self.style # None /\ ~ButtonStyle_contains(self.style)
    THEN FormationErrorListing("style attribute must be one of the following values: ",
                               ButtonStyle_pretty_print)
    ELSE LET r == Action_get_json(self)
         IN  IF r.kind = "error" THEN r
             ELSE LET json == Update(r.json, get_non_null_keys(self, {"value", "style"}))
                  IN  IF Truthy(self.confirm)
                      THEN Returned(SetItem(json, "confirm",
                                            ActionConfirmation_get_json(self.confirm).json))
                      ELSE Returned(json)

MessageDropdown_get_json(self) ==
    LET json == get_non_null_keys(self, attributes(self))
    IN  IF data_source(self) # S("static")
        THEN IF ~ValidOptionCount(Len(self.options.items))
             THEN FormationError("Invalid number of options")
             ELSE Returned(SetItem(
                     SetItem(json, property_key(self),
                             List([i \in 1..Len(self.options.items) |->
                                     Option_get_json(self.options.items[i], "DIALOG")])),
                     "data_source", data_source(self)))
        ELSE Returned(SetItem(json, "data_source", data_source(self)))

DynamicMessageDropdown_get_json(self) ==
    IF ~DynamicTypes_contains(self._source)
    THEN FormationErrorListing("source attribute must be one of the following values: ",
                               DynamicTypes_pretty_print)
    ELSE MessageDropdown_get_json(self)

\* variant: the selected option written under property_key
ExternalMessageDropdown_get_json_Overwrite(self) ==
    LET r == MessageDropdown_get_json(self)
    IN  IF r.kind = "error" THEN r
        ELSE LET json == Update(r.json, get_non_null_keys(self, {"min_query_length"}))
             IN  IF self.selected_option # None
                 THEN Returned(SetItem(json, property_key(self),
                        List(<<Option_get_json(self.selected_option, "INTERACTIVE_MESSAGE")>>)))
                 ELSE Returned(json)

ExternalMessageDropdown_get_json(self) ==
    LET r == MessageDropdown_get_json(self)
    IN  IF r.kind = "error" THEN r
        ELSE LET json == Update(r.json, get_non_null_keys(self, {"min_query_length"}))
             IN  IF self.selected_option # None
                 THEN Returned(SetItem(json, "selected_option",
                        List(<<Option_get_json(self.selected_option, "INTERACTIVE_MESSAGE")>>)))
                 ELSE Returned(json)

\* the get_json a dropdown instance resolves to
Dropdown_get_json(self) ==
    CASE self.class = "DynamicMessageDropdown" -> DynamicMessageDropdown_get_json(self)
      [] self.class = "ExternalMessageDropdown" -> ExternalMessageDropdown_get_json(self)
      [] OTHER -> MessageDropdown_get_json(self)

----------------------------------------------------------------------------
(* Inputs of the constructor calls *)

\* the option sequence of n options, each with its own label and value
MkOptions(n) ==
    List([i \in 1..n |-> Option(S("label"), S(ToString(i)))])

OptionLens == (0..MaxShort) \cup ((MaxOptions - 1)..(MaxOptions + MaxExtra))

OptionLists == {MkOptions(n) : n \in OptionLens}

OptionGroupLists ==
    {List([i \in 1..n |->
            [class |-> "OptionGroup", label |-> S(ToString(i)), options |-> MkOptions(1)]])
        : n \in OptionLens}

SelectedOptions == {None, Option(S("chosen"), S("9"))}

ConfirmationArgs ==
    {[text |-> S("x")],
     [text |-> S("x"), title |-> S("t")],
     [text |-> S("x"), title |-> None, ok_text |-> S("Yes"), dismiss_text |-> S("No")],
     [text |-> S("x"), ok_text |-> None, dismiss_text |-> None],
     [text |-> None]}

Confirmations == {ActionConfirmation_init(a).obj : a \in ConfirmationArgs}

StyleArgs ==
    {None, S("primary"), S("danger"), S("invalid"), S("default"),
     EnumMember("ButtonStyle", "primary"), EnumMember("ButtonStyle", "danger")}

ButtonArgs ==
    {[name |-> n, text |-> t, value |-> v, confirm |-> c, style |-> s] :
        n \in {None, S("a")}, t \in {None, S("b")}, v \in {None, S("c")},
        c \in {None} \cup Confirmations, s \in StyleArgs}
    \cup {[name |-> S("a"), text |-> S("b"), value |-> S("c")]}

LinkButtonArgs ==
    {[text |-> t, url |-> u] : t \in {None, S("b")}, u \in {None, S("http://u")}}

PlainActionArgs ==
    {[text |-> S("b"), type |-> S("button"), name |-> n, url |-> u] :
        n \in {None, S("a")}, u \in {None, S("http://u")}}
    \cup {[text |-> S("b"), type |-> S("button")]}

StaticDropdownArgs(lists) ==
    {[name |-> n, text |-> S("t"), options |-> o, selected_option |-> so] :
        n \in {None, S("n")}, o \in lists, so \in SelectedOptions}
    \cup {[name |-> S("n"), text |-> S("t"), options |-> o] : o \in lists}

SourceArgs ==
    {S("users"), S("channels"), S("invalid"), S("static"),
     EnumMember("DynamicTypes", "conversations")}

DynamicDropdownArgs ==
    {[name |-> n, text |-> S("t"), source |-> src, options |-> o] :
        n \in {None, S("n")}, src \in SourceArgs, o \in OptionLists}
    \cup {[name |-> S("n"), text |-> S("t"), source |-> src] : src \in SourceArgs}

ExternalDropdownArgs ==
    {[name |-> n, label |-> S("l"), options |-> o, selected_option |-> so,
      min_query_length |-> q] :
        n \in {None, S("n")}, o \in OptionLists, so \in SelectedOptions,
        q \in {None, I(2)}}
    \cup {[name |-> S("n"), label |-> S("l"), options |-> o] : o \in OptionLists}
    \cup {[name |-> S("n"), label |-> S("l")]}

----------------------------------------------------------------------------
(* The state machine: one instance is constructed, then serialised         *)
(* repeatedly; a new construction replaces it.                             *)

NoAttempt == [class |-> "NoneType", args |-> None]

Init ==
    /\ obj = None
    /\ attempt = NoAttempt
    /\ raised = NoResult
    /\ result = NoResult
    /\ calls = 0

\* cls(**args): the instance is bound when the constructor returns, and the
\* exception is kept when it raises
Construct(cls, args, r) ==
    /\ attempt' = [class |-> cls, args |-> args]
    /\ obj' = IF r.kind = "object" THEN r.obj ELSE None
    /\ raised' = IF r.kind = "error" THEN r ELSE NoResult
    /\ result' = NoResult
    /\ calls' = 0

NewActionConfirmation ==
    \E a \in ConfirmationArgs :
        Construct("ActionConfirmation", a, ActionConfirmation_init(a))

NewAction ==
    \E a \in PlainActionArgs : Construct("Action", a, PlainAction_init(a))

NewButton ==
    \E a \in ButtonArgs : Construct("Button", a, Button_init(a))

NewLinkButton ==
    \E a \in LinkButtonArgs : Construct("LinkButton", a, LinkButton_init(a))

NewOptionsMessageDropdown ==
    \E a \in StaticDropdownArgs(OptionLists) :
        Construct("OptionsMessageDropdown", a, OptionsMessageDropdown_init(a))

NewOptionGroupMessageDropdown ==
    \E a \in StaticDropdownArgs(OptionGroupLists) :
        Construct("OptionGroupMessageDropdown", a, OptionGroupMessageDropdown_init(a))

NewDynamicMessageDropdown ==
    \E a \in DynamicDropdownArgs :
        Construct("DynamicMessageDropdown", a, DynamicMessageDropdown_init(a))

NewExternalMessageDropdown ==
    \E a \in ExternalDropdownArgs :
        Construct("ExternalMessageDropdown", a, ExternalMessageDropdown_init(a))

\* obj.get_json(): the outcome is kept, no attribute of the instance is assigned
Call(r) ==
    /\ calls < MaxCalls
    /\ result' = r
    /\ calls' = calls + 1
    /\ UNCHANGED <<obj, attempt, raised>>

GetJsonAction ==
    /\ obj.class \in {"Action", "LinkButton"}
    /\ Call(Action_get_json(obj))

GetJsonActionConfirmation ==
    /\ obj.class = "ActionConfirmation"
    /\ Call(ActionConfirmation_get_json(obj))

GetJsonButton ==
    /\ obj.class = "Button"
    /\ Call(Button_get_json(obj))

\* variant: the options are popped off the instance as they are serialised
GetJsonDropdown_Draining ==
    /\ obj.class \in DropdownClasses
    /\ calls < MaxCalls
    /\ result' = Dropdown_get_json(obj)
    /\ calls' = calls + 1
    /\ obj' = IF obj.options # None THEN SetAttr(obj, "options", List(<<>>)) ELSE obj
    /\ UNCHANGED <<attempt, raised>>

GetJsonDropdown ==
    /\ obj.class \in DropdownClasses
    /\ Call(Dropdown_get_json(obj))

Next ==
    \/ NewActionConfirmation
    \/ NewAction
    \/ NewButton
    \/ NewLinkButton
    \/ NewOptionsMessageDropdown
    \/ NewOptionGroupMessageDropdown
    \/ NewDynamicMessageDropdown
    \/ NewExternalMessageDropdown
    \/ GetJsonAction
    \/ GetJsonActionConfirmation
    \/ GetJsonButton
    \/ GetJsonDropdown

Spec == Init /\ [][Next]_vars

----------------------------------------------------------------------------
(* Properties *)

FormationFailure(r) == r.kind = "error" /\ r.type = "SlackObjectFormationError"

\* get_json() has been called on the bound instance of class cls
Serialised(cls) == obj.class = cls /\ calls > 0

\* no key of the mapping, nor of a mapping nested in it, holds None
NoNullValues(d) ==
    \A k \in Keys(d) :
        /\ d.items[k] # None
        /\ d.items[k].class = "dict" =>
              \A j \in Keys(d.items[k]) : d.items[k].items[j] # None

StyleAllowed(style) == style \in {S("primary"), S("danger")}

\* C1 (as stated): every Button with name or url set, whatever its text,
\* value, style and confirm, serialises successfully, the mapping holds no
\* None value and every unset optional field is omitted.
C1_AnyStyleSucceeds ==
    (Serialised("Button") /\ (obj.name # None \/ obj.url # None)) =>
        /\ result.kind = "json"
        /\ NoNullValues(result.json)
        /\ \A k \in {"style", "confirm", "url", "value"} :
              obj[k] = None => k \notin Keys(result.json)

\* C1 (amended): every Button with name or url set and with style unset or
\* one of the allowed styles serialises successfully, the mapping holds no
\* None value and every unset optional field (style, confirm, url, value) is
\* omitted.
C1_AllowedStyleSucceeds ==
    (/\ Serialised("Button")
     /\ obj.name # None \/ obj.url # None
     /\ obj.style = None \/ StyleAllowed(obj.style)) =>
        /\ result.kind = "json"
        /\ NoNullValues(result.json)
        /\ \A k \in {"style", "confirm", "url", "value"} :
              obj[k] = None => k \notin Keys(result.json)

C1_Witness ==
    /\ Serialised("Button")
    /\ obj.name # None /\ obj.text = None /\ obj.value = None
    /\ obj.style = None /\ obj.confirm # None /\ obj.confirm.title = None
    /\ result.kind = "json"

\* C2: get_json() on a Button whose style is set outside the allowed styles
\* fails with a formation error that lists the valid styles, whatever name,
\* text, value and confirm are, also when name is unset.
C2_InvalidStyleFails ==
    (Serialised("Button") /\ obj.style # None /\ ~StyleAllowed(obj.style)) =>
        /\ FormationFailure(result)
        /\ "listed" \in DOMAIN result
        /\ result.listed = {"primary", "danger"}

C2_Witness ==
    /\ Serialised("Button")
    /\ obj.style = S("invalid") /\ obj.name = None
    /\ FormationFailure(result)

\* C3: a constructed non-static dropdown serialises if and only if it has
\* between 1 and 100 options; otherwise it fails with "Invalid number of
\* options"; on success property_key holds one entry per option, in order.
C3_OptionCount ==
    (obj.class \in DropdownClasses \ StaticDropdownClasses /\ calls > 0) =>
        LET n == Len(obj.options.items) IN
        /\ result.kind = "json" <=> (1 <= n /\ n <= 100)
        /\ result.kind # "json" =>
              FormationFailure(result) /\ result.message = "Invalid number of options"
        /\ result.kind = "json" =>
              /\ property_key(obj) \in Keys(result.json)
              /\ Len(result.json.items[property_key(obj)].items) = n
              /\ \A i \in 1..n :
                    result.json.items[property_key(obj)].items[i]
                        = Dict([label |-> obj.options.items[i].label,
                                value |-> obj.options.items[i].value])

C3_Witness ==
    /\ obj.class = "ExternalMessageDropdown" /\ calls > 0
    /\ Len(obj.options.items) = 100
    /\ result.kind = "json"

\* C4: constructing a Dynamic Dropdown with a source outside the dynamic
\* source set (and an option sequence) completes without error; the failure
\* comes only from get_json().
C4_ConstructionSucceeds ==
    (/\ attempt.class = "DynamicMessageDropdown"
     /\ "options" \in DOMAIN attempt.args
     /\ ~DynamicTypes_contains(get_raw_value(attempt.args.source))) =>
        /\ raised = NoResult
        /\ obj.class = "DynamicMessageDropdown"

\* C5: on every class of the Action hierarchy get_json() fails with a
\* formation error when name and url are both unset, so every mapping it
\* returns has a name key or a url key.
C5_NameOrUrl ==
    (obj.class \in ActionClasses /\ calls > 0) =>
        /\ (obj.name = None /\ obj.url = None) => FormationFailure(result)
        /\ result.kind = "json" =>
              "name" \in Keys(result.json) \/ "url" \in Keys(result.json)

\* C6: a mapping returned by ExternalMessageDropdown.get_json() holds under
\* selected_option a list of exactly the interactive-message serialisation of
\* the selected option when one is set and has no such key otherwise, and
\* options still holds the dialog serialisation of every option.
C6_SelectedOption ==
    (Serialised("ExternalMessageDropdown") /\ result.kind = "json") =>
        /\ obj.selected_option # None =>
              /\ "selected_option" \in Keys(result.json)
              /\ result.json.items["selected_option"]
                    = List(<<Option_get_json(obj.selected_option, "INTERACTIVE_MESSAGE")>>)
        /\ obj.selected_option = None => "selected_option" \notin Keys(result.json)
        /\ "options" \in Keys(result.json)
        /\ result.json.items["options"]
              = List([i \in 1..Len(obj.options.items) |->
                        Option_get_json(obj.options.items[i], "DIALOG")])

C6_Witness ==
    /\ Serialised("ExternalMessageDropdown")
    /\ obj.selected_option # None
    /\ Len(obj.options.items) = 2
    /\ result.kind = "json"

\* the mapping C7 describes for a Button
ExpectedButtonJson(b) ==
    Dict([k \in {a \in {"name", "text", "type", "value", "style"} : b[a] # None}
               \cup (IF b.confirm # None THEN {"confirm"} ELSE {}) |->
            IF k = "confirm"
            THEN Dict([a \in {c \in {"title", "text", "ok_text", "dismiss_text"} :
                                b.confirm[c] # None} |-> b.confirm[a]])
            ELSE b[k]])

\* C7: a Button with name set and style unset or allowed serialises to
\* exactly the non-null part of name, text, type ("button"), value and style,
\* plus confirm (the confirmation's mapping) exactly when one is attached;
\* name "a", text "b", value "c" alone gives {name, text, type, value}.
C7_ButtonJson ==
    (/\ Serialised("Button")
     /\ obj.name # None
     /\ obj.style = None \/ StyleAllowed(obj.style)) =>
        /\ result.kind = "json"
        /\ result.json = ExpectedButtonJson(obj)
        /\ result.json.items["type"] = S("button")
        /\ attempt.args = [name |-> S("a"), text |-> S("b"), value |-> S("c")] =>
              result.json.items
                 = [name |-> S("a"), text |-> S("b"), type |-> S("button"),
                    value |-> S("c")]

C7_Witness ==
    /\ Serialised("Button")
    /\ attempt.args = [name |-> S("a"), text |-> S("b"), value |-> S("c")]
    /\ result.kind = "json"

\* C8: get_json() of an ActionConfirmation never fails, and on one
\* constructed with text alone it returns text, ok_text "Okay" and
\* dismiss_text "Cancel", without a title key.
C8_ConfirmationDefaults ==
    Serialised("ActionConfirmation") =>
        /\ result.kind = "json"
        /\ (DOMAIN attempt.args = {"text"} /\ attempt.args.text # None) =>
              result.json.items
                 = [text |-> attempt.args.text, ok_text |-> S("Okay"),
                    dismiss_text |-> S("Cancel")]

C8_Witness ==
    /\ Serialised("ActionConfirmation")
    /\ attempt.args = [text |-> S("x")]
    /\ result.kind = "json"

\* C9: get_json() of the two static dropdowns never fails, whatever the
\* number of options passed, and its mapping has data_source "static" and
\* neither an options nor an options_group key.
C9_StaticOptionsNotSerialised ==
    (obj.class \in StaticDropdownClasses /\ calls > 0) =>
        /\ result.kind = "json"
        /\ "data_source" \in Keys(result.json)
        /\ result.json.items["data_source"] = S("static")
        /\ "options" \notin Keys(result.json)
        /\ "options_group" \notin Keys(result.json)

C9_Witness ==
    /\ Serialised("OptionsMessageDropdown")
    /\ Len(attempt.args.options.items) > 100
    /\ result.kind = "json"

====
